---- MODULE Spec2Model ----
(***************************************************************************)
(* Model of the distortion calibration driver                              *)
(* src/software/pipeline/main_distortionCalibration.cpp:                   *)
(*   - retrieveLines: checkerboard grid -> candidate lines                 *)
(*   - estimateDistortion{K1,K3,3DER4,3DEA4,3DELD}: staged solver calls    *)
(*   - generatePoints and aliceVision_main: per-intrinsic orchestration    *)
(*                                                                         *)
(* Real quantities are carried as integers: distortion parameters in       *)
(* thousandths (1.0 is 1000, pi/2 is 1571), pixel sizes and scales in      *)
(* whole pixels, sqrt rounded down to the unit.                             *)
(***************************************************************************)
EXTENDS Integers, Sequences, FiniteSets, TLC

VARIABLES
    \* ---- retrieveLines on its own (SpecLines) ----
    detect,              \* the CheckerDetector handed to retrieveLines
    lineWithPoints,      \* its output vector
    lret,                \* the bool it returned
    lpc,                 \* "call" before the call, "returned" after it
    \* ---- aliceVision_main (Spec) ----
    pc,                  \* position in aliceVision_main
    numIntrinsics,       \* size of sfmData.getIntrinsics()
    idx,                 \* 1-based position of the intrinsic loop
    intrinsicClass,      \* dynamic class of the intrinsic the loop is at
    cameraPinhole,       \* that intrinsic cast to camera::Pinhole
    views,               \* detectors of the views sharing that intrinsic
    allLinesWithPoints,  \* lines gathered for that intrinsic
    scale,               \* local `scale` saved at line 626
    points,              \* local `points` filled by generatePoints
    stage,               \* next solver call of the running schedule
    calls,               \* solver invocations made for that intrinsic
    failed,              \* intrinsics for which "Failed to calibrate" was logged
    fatal,               \* the error message that ended the run, "" if none
    saved,               \* sfmDataIO::Save has written the output
    exitCode             \* process exit status, read once pc = "done"

linesVars == <<detect, lineWithPoints, lret, lpc>>
mainVars == <<pc, numIntrinsics, idx, intrinsicClass, cameraPinhole, views, allLinesWithPoints,
              scale, points, stage, calls, failed, fatal, saved, exitCode>>
vars == <<detect, lineWithPoints, lret, lpc, pc, numIntrinsics, idx,
          intrinsicClass, cameraPinhole, views, allLinesWithPoints, scale, points, stage, calls, failed,
          fatal, saved, exitCode>>

---------------------------------------------------------------------------
(* Bounds of the model *)

MaxDim == 11          \* boards have at most MaxDim rows and MaxDim columns
MaxGap == 2           \* length of the run of undefined cells of an explored board
MaxIntrinsics == 2    \* intrinsics in the scene
MaxViews == 2         \* views sharing one intrinsic
MaxFit == 1           \* distinct values a solver run may give a free parameter

(* Program constants *)

MinLinePoints == 10   \* `line.points.size() < 10`
MinLines == 2         \* `lineWithPoints.size() < 2`
UndefinedIndexT == -1 \* sentinel of an undefined board cell
M_PI_4 == 785         \* pi/4 in thousandths
M_PI_2 == 1571        \* pi/2 in thousandths
One == 1000           \* 1.0 in thousandths
EXIT_SUCCESS == 0
EXIT_FAILURE == 1

Min(a, b) == IF a < b THEN a ELSE b

---------------------------------------------------------------------------
(* CheckerBoard: rows x cols grid of corner indices, `undef` the cells     *)
(* holding UndefinedIndexT.  A defined cell (i, j) holds corner index      *)
(* i * cols + j; a point (corners[idx].center) is identified with idx.     *)

Board(r, c, u) == [rows |-> r, cols |-> c, undef |-> u]

\* b(i, j)
At(b, i, j) == IF <<i, j>> \in b.undef THEN UndefinedIndexT ELSE i * b.cols + j

\* `if (idx == UndefinedIndexT) continue; line.points.push_back(p.center)`:
\* the visited cells' corners in visiting order, the undefined ones skipped
PushDefined(cells) == SelectSeq(cells, LAMBDA x : x # UndefinedIndexT)

Line(pts, horizontal, index, boardIdx) ==
    [points |-> pts, angle |-> M_PI_4, dist |-> 1, horizontal |-> horizontal,
     index |-> index, board |-> boardIdx]

RowLineNoSkip(b, boardIdx, i) ==
    Line([k \in 1..b.cols |-> At(b, i, k - 1)], TRUE, i, boardIdx)

\* horizontal line of row i: cells (i, 0..cols-1)
RowLine(b, boardIdx, i) ==
    Line(PushDefined([k \in 1..b.cols |-> At(b, i, k - 1)]), TRUE, i, boardIdx)

\* vertical line of column j: cells (0..rows-1, j)
ColLine(b, boardIdx, j) ==
    Line(PushDefined([k \in 1..b.rows |-> At(b, k - 1, j)]), FALSE, j, boardIdx)

\* diagonal 1 from row i: cells (i + j, j) until i + j >= rows
Diag1Line(b, boardIdx, i) ==
    Line(PushDefined([k \in 1..Min(b.cols, b.rows - i) |-> At(b, i + k - 1, k - 1)]),
         FALSE, i, boardIdx)

Diag2LineFromNextColumn(b, boardIdx, j) ==
    Line(PushDefined([k \in 1..Min(b.rows, b.cols - j - 1) |-> At(b, k - 1, k + j)]),
         FALSE, j, boardIdx)

\* diagonal 2 from column j: cells (i, i + j) until i + j >= cols
Diag2Line(b, boardIdx, j) ==
    Line(PushDefined([k \in 1..Min(b.rows, b.cols - j) |-> At(b, k - 1, k - 1 + j)]),
         FALSE, j, boardIdx)

\* diagonal 3 from column j: cells (rows - 1 - i, i + j) until i + j >= cols
Diag3Line(b, boardIdx, j) ==
    Line(PushDefined([k \in 1..Min(b.rows, b.cols - j) |->
                        At(b, b.rows - 1 - (k - 1), k - 1 + j)]),
         FALSE, j, boardIdx)

TooSmallOffByOne(line) == Len(line.points) < MinLinePoints - 1

\* `if (line.points.size() < 10) continue;`
TooSmall(line) == Len(line.points) < MinLinePoints

\* the candidates of one family, in loop order, minus the too small ones
Emitted(cands) == SelectSeq(cands, LAMBDA l : ~TooSmall(l))

RowLines(b, boardIdx) ==
    Emitted([k \in 1..b.rows |-> RowLine(b, boardIdx, k - 1)])
ColLines(b, boardIdx) ==
    Emitted([k \in 1..b.cols |-> ColLine(b, boardIdx, k - 1)])
Diag1Lines(b, boardIdx) ==
    Emitted([k \in 1..b.rows |-> Diag1Line(b, boardIdx, k - 1)])
Diag2Lines(b, boardIdx) ==
    Emitted([k \in 1..b.cols |-> Diag2Line(b, boardIdx, k - 1)])
Diag3Lines(b, boardIdx) ==
    Emitted([k \in 1..b.cols |-> Diag3Line(b, boardIdx, k - 1)])

\* body of `for (auto& b : boards)` for one board
BoardLines(b, boardIdx) ==
    RowLines(b, boardIdx) \o ColLines(b, boardIdx) \o Diag1Lines(b, boardIdx)
        \o Diag2Lines(b, boardIdx) \o Diag3Lines(b, boardIdx)

RECURSIVE AllBoardLines(_, _)
AllBoardLines(boards, n) ==
    IF n = 0 THEN <<>>
    ELSE AllBoardLines(boards, n - 1) \o BoardLines(boards[n], n - 1)

\* retrieveLines: the output vector and the returned bool
retrieveLines(d) ==
    LET lines == AllBoardLines(d.boards, Len(d.boards))
    IN  [lineWithPoints |-> lines, ret |-> ~(Len(lines) < MinLines)]

---------------------------------------------------------------------------
(* The staged schedules.  One Stage is the argument list of one            *)
(* calibration::estimate(camera, statistics, items, lockScale, lockOffset, *)
(* locksDistortions, lockLines) call.                                      *)

Stage(lockScale, lockOffset, locksDistortions, lockLines) ==
    [lockScale |-> lockScale, lockOffset |-> lockOffset,
     locksDistortions |-> locksDistortions, lockLines |-> lockLines]

\* a lock vector of n entries, true except at the (0-based) indices of `free`
Locks(n, free) == [k \in 1..n |-> (k - 1) \notin free]

ScheduleK1OffsetFreeFirst ==
    << Stage(TRUE, FALSE, Locks(1, {}), FALSE),
       Stage(TRUE, TRUE, Locks(1, {0}), FALSE),
       Stage(TRUE, FALSE, Locks(1, {0}), FALSE) >>

\* estimateDistortionK1
ScheduleK1 ==
    << Stage(TRUE, TRUE, Locks(1, {}), FALSE),
       Stage(TRUE, TRUE, Locks(1, {0}), FALSE),
       Stage(TRUE, FALSE, Locks(1, {0}), FALSE) >>

\* estimateDistortionK3
ScheduleK3 ==
    << Stage(TRUE, TRUE, Locks(3, {}), FALSE),
       Stage(TRUE, TRUE, Locks(3, {0}), FALSE),
       Stage(TRUE, FALSE, Locks(3, {0}), FALSE),
       Stage(TRUE, FALSE, Locks(3, {0, 1, 2}), FALSE) >>

\* estimateDistortion3DER4
Schedule3DER4 ==
    << Stage(TRUE, TRUE, Locks(6, {}), FALSE),
       Stage(TRUE, TRUE, Locks(6, {0}), FALSE),
       Stage(TRUE, FALSE, Locks(6, {0}), FALSE),
       Stage(TRUE, FALSE, Locks(6, 0..5), FALSE) >>

Schedule3DEA4RelocksInStage4 ==
    << Stage(TRUE, TRUE, Locks(14, {}), FALSE),
       Stage(TRUE, FALSE, Locks(14, {}), FALSE),
       Stage(TRUE, FALSE, Locks(14, 0..3), TRUE),
       Stage(TRUE, FALSE, Locks(14, 4..9), TRUE),
       Stage(TRUE, FALSE, Locks(14, 0..11), TRUE) >>

\* estimateDistortion3DEA4
Schedule3DEA4 ==
    << Stage(TRUE, TRUE, Locks(14, {}), FALSE),
       Stage(TRUE, FALSE, Locks(14, {}), FALSE),
       Stage(TRUE, FALSE, Locks(14, 0..3), TRUE),
       Stage(TRUE, FALSE, Locks(14, 0..9), TRUE),
       Stage(TRUE, FALSE, Locks(14, 0..11), TRUE) >>

Schedule3DELDAngleFreeInStage4 ==
    << Stage(TRUE, TRUE, Locks(5, {}), FALSE),
       Stage(TRUE, TRUE, Locks(5, {0}), FALSE),
       Stage(TRUE, FALSE, Locks(5, {0}), FALSE),
       Stage(TRUE, FALSE, Locks(5, {0, 1, 2, 3}), FALSE),
       Stage(TRUE, FALSE, Locks(5, 0..4), TRUE) >>

Schedule3DELDLinesNeverFrozen ==
    << Stage(TRUE, TRUE, Locks(5, {}), FALSE),
       Stage(TRUE, TRUE, Locks(5, {0}), FALSE),
       Stage(TRUE, FALSE, Locks(5, {0}), FALSE),
       Stage(TRUE, FALSE, Locks(5, {0, 2, 3}), FALSE),
       Stage(TRUE, FALSE, Locks(5, 0..4), FALSE) >>

\* estimateDistortion3DELD
Schedule3DELD ==
    << Stage(TRUE, TRUE, Locks(5, {}), FALSE),
       Stage(TRUE, TRUE, Locks(5, {0}), FALSE),
       Stage(TRUE, FALSE, Locks(5, {0}), FALSE),
       Stage(TRUE, FALSE, Locks(5, {0, 2, 3}), FALSE),
       Stage(TRUE, FALSE, Locks(5, 0..4), TRUE) >>

\* camera classes; every one but Equidistant casts to camera::Pinhole
Models == {"Equidistant", "Pinhole", "PinholeRadialK1", "PinholeRadialK3",
           "Pinhole3DERadial4", "Pinhole3DEAnamorphic4", "Pinhole3DEClassicLD"}

\* a cast that never yields null
IsPinholeAlways(model) == TRUE

\* std::dynamic_pointer_cast<camera::Pinhole>(intrinsicPtr) is not null
IsPinhole(model) == model # "Equidistant"

\* the dynamic_pointer_cast chain: the schedule run for a camera class; the
\* final else ("Incompatible camera distortion model") runs no solver call
Schedule(model) ==
    CASE model = "PinholeRadialK1" -> ScheduleK1
      [] model = "PinholeRadialK3" -> ScheduleK3
      [] model = "Pinhole3DERadial4" -> Schedule3DER4
      [] model = "Pinhole3DEAnamorphic4" -> Schedule3DEA4
      [] model = "Pinhole3DEClassicLD" -> Schedule3DELD
      [] OTHER -> <<>>

\* length of the class's distortion parameter vector (that of its lock vector)
NumParams(model) ==
    IF Schedule(model) = <<>> THEN 0 ELSE Len(Schedule(model)[1].locksDistortions)

\* the parameter writes that open estimateDistortion3DEA4 (index 4 is not written)
Seed3DEA4(params) ==
    [k \in 1..Len(params) |->
        IF (k - 1) \in {0, 1, 2, 3, 5, 6, 7, 8, 9, 10} THEN 0
        ELSE IF (k - 1) \in {11, 12, 13} THEN One
        ELSE params[k]]

\* the parameter writes that open estimateDistortion3DELD
Seed3DELD(params) ==
    [k \in 1..Len(params) |->
        IF (k - 1) = 1 THEN M_PI_2
        ELSE IF (k - 1) \in {0, 2, 3, 4} THEN 0
        ELSE params[k]]

\* camera->setDistortionParams(params) at the head of a schedule function
Seeded(cam) ==
    CASE cam.model = "Pinhole3DEAnamorphic4" -> [cam EXCEPT !.params = Seed3DEA4(@)]
      [] cam.model = "Pinhole3DEClassicLD" -> [cam EXCEPT !.params = Seed3DELD(@)]
      [] OTHER -> cam

\* the value a solver run numbered d leaves in a parameter it was free to move
\* (negative: apart from every seed and every value held beforehand)
FitValue(d) == 0 - d

\* calibration::estimate: it fails and leaves the camera as it was, or it
\* succeeds and has moved only what the stage leaves unlocked
EstimateOutcomes(cam, st) ==
    {[ok |-> FALSE, camera |-> cam]} \cup
    {[ok |-> TRUE,
      camera |-> [cam EXCEPT
         !.params = [k \in 1..Len(@) |->
                        IF st.locksDistortions[k] THEN @[k] ELSE FitValue(d)],
         !.offset = IF st.lockOffset THEN @ ELSE <<FitValue(d), FitValue(d)>>,
         !.scale = IF st.lockScale THEN @ ELSE <<FitValue(d), FitValue(d)>>]]
     : d \in 1..MaxFit}

ContinuesAfterFailure(ok) == TRUE

\* `if (!calibration::estimate(...)) { ...; return false; }`: the schedule
\* goes on to its next call only when the call reported success
GoesOn(ok) == ok

\* floor of the square root
ISqrt(n) == CHOOSE r \in 0..n : r * r <= n /\ n < (r + 1) * (r + 1)

\* diag = sqrt(hw * hw + hh * hh) with hw = w * 0.5, hh = h * 0.5
Diag(w, h) == ISqrt((w \div 2) * (w \div 2) + (h \div 2) * (h \div 2))

\* what a loaded intrinsic may hold: image size, pixel scale, and the value
\* of its distortion parameters (a fresh camera, a previously calibrated one)
Presets == {[w |-> 6, h |-> 8, scale |-> <<1, 1>>, prior |-> 0],
            [w |-> 16, h |-> 12, scale |-> <<3, 4>>, prior |-> 250]}

\* detector results a view may come with: a 3x3 board, one row of 10, two
\* rows of 10; NoFile is the default-constructed detector
NoFile == [boards |-> <<>>]
Small3x3 == [boards |-> <<Board(3, 3, {})>>]
OneRow == [boards |-> <<Board(1, MinLinePoints, {})>>]
TwoRows == [boards |-> <<Board(2, MinLinePoints, {})>>]
Detectors == {Small3x3, OneRow, TwoRows}

\* the sequences of at most n detectors
RECURSIVE ViewLists(_)
ViewLists(n) ==
    IF n = 0 THEN {<<>>}
    ELSE LET shorter == ViewLists(n - 1)
         IN  shorter \cup {Append(v, d) : v \in shorter, d \in Detectors}

KeepsSingleLineViews(r) == r.lineWithPoints # <<>>

\* `if (!retrieveLines(linesWithPoints, boardsAllImages[pv.first])) continue;`
ViewKept(r) == r.ret

\* the loop over the views sharing the intrinsic: the lines of every view
\* that retrieveLines accepts, appended in view order
RECURSIVE GatherLines(_, _)
GatherLines(vs, n) ==
    IF n = 0 THEN <<>>
    ELSE LET r == retrieveLines(vs[n])
         IN  GatherLines(vs, n - 1) \o (IF ViewKept(r) THEN r.lineWithPoints ELSE <<>>)

\* generatePoints: one pair per point of every line, in line order, the
\* pairs failing the 1e-3 round trip left out (`accurate`: the fitted model
\* inverts within 1e-3 on these corners); it always returns true
RECURSIVE LinePoints(_, _)
LinePoints(lines, n) ==
    IF n = 0 THEN <<>> ELSE LinePoints(lines, n - 1) \o lines[n].points

generatePoints(lines, accurate) ==
    IF accurate THEN LinePoints(lines, Len(lines)) ELSE <<>>

---------------------------------------------------------------------------
(* aliceVision_main.  The scene is read as the loop reaches it: the class, *)
(* sensor and views of an intrinsic are drawn when its iteration begins,   *)
(* and the state keeps the intrinsic under processing (the cameras of the  *)
(* finished iterations are read again only by the final Save).  pc "next"  *)
(* is the end of an iteration, reached by `continue` or at line 759.       *)

NoCamera == [model |-> "none", w |-> 0, h |-> 0, scale |-> <<0, 0>>,
             offset |-> <<0, 0>>, params |-> <<>>]

\* an intrinsic as loaded: all its distortion parameters hold the preset's `prior`
LoadedCamera(model, preset) ==
    [model |-> model, w |-> preset.w, h |-> preset.h, scale |-> preset.scale,
     offset |-> <<0, 0>>, params |-> [k \in 1..NumParams(model) |-> preset.prior]]

Call(mode, k, st, nItems, ok) ==
    [mode |-> mode, stage |-> k, lockScale |-> st.lockScale,
     lockOffset |-> st.lockOffset, locksDistortions |-> st.locksDistortions,
     lockLines |-> st.lockLines, nItems |-> nItems, ok |-> ok]

OnScheduleFailureReturn == "return"

\* `ALICEVISION_LOG_ERROR("Error estimating distortion"); continue;`
OnScheduleFailure == "continue"

InitMain ==
    /\ pc = "start"
    /\ numIntrinsics = 0
    /\ idx = 0
    /\ intrinsicClass = "none"
    /\ cameraPinhole = NoCamera
    /\ views = <<>>
    /\ allLinesWithPoints = <<>>
    /\ scale = <<0, 0>>
    /\ points = <<>>
    /\ stage = 0
    /\ calls = <<>>
    /\ failed = {}
    /\ fatal = ""
    /\ saved = FALSE
    /\ exitCode = EXIT_SUCCESS

Init ==
    /\ detect = NoFile
    /\ lineWithPoints = <<>>
    /\ lret = FALSE
    /\ lpc = "idle"
    /\ InitMain

\* lines 524-553: the command line
ParseCommandLine ==
    /\ pc = "start"
    /\ \E outcome \in {"ok", "help", "error"} :
          /\ pc' = IF outcome = "ok" THEN "load" ELSE "done"
          /\ exitCode' = IF outcome = "error" THEN EXIT_FAILURE ELSE EXIT_SUCCESS
    /\ UNCHANGED <<linesVars, numIntrinsics, idx, intrinsicClass, cameraPinhole,
                   views, allLinesWithPoints, scale, points, stage, calls,
                   failed, fatal, saved>>

\* lines 555-586: sfmDataIO::Load and the checkerboard files
LoadSfmData ==
    /\ pc = "load"
    /\ \/ /\ fatal' = "The input SfMData file cannot be read."
          /\ exitCode' = EXIT_FAILURE
          /\ pc' = "done"
          /\ UNCHANGED <<numIntrinsics, idx>>
       \/ /\ numIntrinsics' \in 0..MaxIntrinsics
          /\ idx' = 1
          /\ pc' = "loop"
          /\ UNCHANGED <<fatal, exitCode>>
    /\ UNCHANGED <<linesVars, intrinsicClass, cameraPinhole, views,
                   allLinesWithPoints, scale, points, stage, calls, failed, saved>>

\* lines 589-629: the head of one iteration, up to the first schedule call
BeginIntrinsic ==
    /\ pc = "loop"
    /\ idx <= numIntrinsics
    /\ \E model \in Models :
         /\ intrinsicClass' = model
         /\ IF ~IsPinhole(model)
            THEN /\ fatal' = "Only work for pinhole cameras"
                 /\ exitCode' = EXIT_FAILURE
                 /\ pc' = "done"
                 /\ UNCHANGED <<cameraPinhole, views, allLinesWithPoints, scale,
                                points, stage, calls>>
            ELSE \E preset \in Presets, vs \in ViewLists(MaxViews) :
                 LET cam == LoadedCamera(model, preset)
                     diag == Diag(cam.w, cam.h)
                 IN  /\ views' = vs
                     /\ allLinesWithPoints' = GatherLines(vs, Len(vs))
                     /\ scale' = cam.scale
                     /\ cameraPinhole' = [cam EXCEPT !.scale = <<diag, diag>>]
                     /\ points' = <<>>
                     /\ calls' = <<>>
                     /\ stage' = 1
                     /\ pc' = IF Schedule(model) = <<>> THEN "restore" ELSE "forward"
                     /\ UNCHANGED <<fatal, exitCode>>
    /\ UNCHANGED <<linesVars, numIntrinsics, idx, failed, saved>>

\* one calibration::estimate call of the schedule on the lines (lines 632-671
\* into estimateDistortion*), with what follows its result
ForwardCall ==
    /\ pc = "forward"
    /\ LET sched == Schedule(cameraPinhole.model)
           st == sched[stage]
           cam == IF stage = 1 THEN Seeded(cameraPinhole) ELSE cameraPinhole
       IN  \E out \in EstimateOutcomes(cam, st) :
            /\ calls' = Append(calls, Call("lines", stage, st,
                                           Len(allLinesWithPoints), out.ok))
            /\ cameraPinhole' = out.camera
            /\ IF GoesOn(out.ok)
               THEN /\ IF stage < Len(sched)
                       THEN stage' = stage + 1 /\ pc' = "forward"
                       ELSE stage' = 1 /\ pc' = "restore"
                    /\ UNCHANGED <<failed, fatal, exitCode>>
               ELSE /\ failed' = failed \cup {idx}
                    /\ stage' = stage
                    /\ IF OnScheduleFailure = "continue"
                       THEN pc' = "next" /\ UNCHANGED <<fatal, exitCode>>
                       ELSE pc' = "done" /\ exitCode' = EXIT_FAILURE /\ fatal' = fatal
    /\ UNCHANGED <<linesVars, numIntrinsics, idx, intrinsicClass, views,
                   allLinesWithPoints, scale, points, saved>>

\* lines 677-708: restore the scale, build the point pairs; with no
\* schedule for the class the second dispatch only logs and the iteration ends
RestoreAndGenerate ==
    /\ pc = "restore"
    /\ cameraPinhole' = [cameraPinhole EXCEPT !.scale = scale]
    /\ \E accurate \in BOOLEAN :
          points' = generatePoints(allLinesWithPoints, accurate)
    /\ pc' = IF Schedule(cameraPinhole.model) = <<>> THEN "next" ELSE "inverse"
    /\ stage' = 1
    /\ UNCHANGED <<linesVars, numIntrinsics, idx, intrinsicClass, views,
                   allLinesWithPoints, scale, calls, failed, fatal, saved, exitCode>>

\* one calibration::estimate call of the schedule on the point pairs (lines
\* 710-750 into estimateDistortion*), with what follows its result
InverseCall ==
    /\ pc = "inverse"
    /\ LET sched == Schedule(cameraPinhole.model)
           st == sched[stage]
           cam == IF stage = 1 THEN Seeded(cameraPinhole) ELSE cameraPinhole
       IN  \E out \in EstimateOutcomes(cam, st) :
            /\ calls' = Append(calls, Call("points", stage, st, Len(points), out.ok))
            /\ cameraPinhole' = out.camera
            /\ IF GoesOn(out.ok)
               THEN /\ IF stage < Len(sched)
                       THEN stage' = stage + 1 /\ pc' = "inverse"
                       ELSE stage' = stage /\ pc' = "next"
                    /\ UNCHANGED <<failed, fatal, exitCode>>
               ELSE /\ failed' = failed \cup {idx}
                    /\ stage' = stage
                    /\ IF OnScheduleFailure = "continue"
                       THEN pc' = "next" /\ UNCHANGED <<fatal, exitCode>>
                       ELSE pc' = "done" /\ exitCode' = EXIT_FAILURE /\ fatal' = fatal
    /\ UNCHANGED <<linesVars, numIntrinsics, idx, intrinsicClass, views,
                   allLinesWithPoints, scale, points, saved>>

\* lines 589 and 759: the iteration ends (by `continue` or at the closing
\* brace), its locals go out of scope and the loop moves to the next intrinsic
NextIntrinsic ==
    /\ pc = "next"
    /\ idx' = idx + 1
    /\ pc' = "loop"
    /\ intrinsicClass' = "none"
    /\ cameraPinhole' = NoCamera
    /\ views' = <<>>
    /\ allLinesWithPoints' = <<>>
    /\ scale' = <<0, 0>>
    /\ points' = <<>>
    /\ stage' = 0
    /\ calls' = <<>>
    /\ UNCHANGED <<linesVars, numIntrinsics, failed, fatal, saved, exitCode>>

\* lines 761-768: sfmDataIO::Save and the exit status
SaveSfmData ==
    /\ pc = "loop"
    /\ idx > numIntrinsics
    /\ \/ /\ saved' = TRUE
          /\ exitCode' = EXIT_SUCCESS
          /\ UNCHANGED fatal
       \/ /\ saved' = FALSE
          /\ exitCode' = EXIT_FAILURE
          /\ fatal' = "The output SfMData file cannot be written."
    /\ pc' = "done"
    /\ UNCHANGED <<linesVars, numIntrinsics, idx, intrinsicClass, cameraPinhole,
                   views, allLinesWithPoints, scale, points, stage, calls, failed>>

Next ==
    \/ ParseCommandLine
    \/ LoadSfmData
    \/ BeginIntrinsic
    \/ ForwardCall
    \/ RestoreAndGenerate
    \/ InverseCall
    \/ NextIntrinsic
    \/ SaveSfmData

Spec == Init /\ [][Next]_vars

---------------------------------------------------------------------------
(* SpecLines: retrieveLines applied to every detector of the bounded set.  *)

Cells(r, c) == (0..(r - 1)) \X (0..(c - 1))

\* board dimensions explored
Dims == 1..MaxDim

\* the explored boards: all cells defined but one horizontal run of `gap` cells
\* starting at cell (i, j), cut at the end of the row (gap 0: no undefined cell)
BoardWithGap(r, c, i, j, gap) ==
    Board(r, c, {<<i, j + k>> : k \in 0..(gap - 1)} \cap Cells(r, c))

\* a second board that may follow the explored one in the same detector
SecondBoards == {Board(1, MinLinePoints, {}), Board(MinLinePoints, MinLinePoints, {})}

\* aliceVision_main is not running
InitMainIdle ==
    /\ pc = "idle"
    /\ numIntrinsics = 0
    /\ idx = 0
    /\ intrinsicClass = "none"
    /\ cameraPinhole = NoCamera
    /\ views = <<>>
    /\ allLinesWithPoints = <<>>
    /\ scale = <<0, 0>>
    /\ points = <<>>
    /\ stage = 0
    /\ calls = <<>>
    /\ failed = {}
    /\ fatal = ""
    /\ saved = FALSE
    /\ exitCode = EXIT_SUCCESS

InitLines ==
    /\ \E r \in Dims, c \in Dims :
          \E cell \in Cells(r, c), gap \in 0..MaxGap :
             LET b == BoardWithGap(r, c, cell[1], cell[2], gap)
             IN  \/ detect = [boards |-> <<b>>]
                 \/ /\ b.undef = {}
                    /\ \E b2 \in SecondBoards : detect = [boards |-> <<b, b2>>]
    /\ lineWithPoints = <<>>
    /\ lret = FALSE
    /\ lpc = "call"
    /\ InitMainIdle

\* one call of retrieveLines(lineWithPoints, detect)
CallRetrieveLines ==
    /\ lpc = "call"
    /\ LET r == retrieveLines(detect)
       IN  /\ lineWithPoints' = r.lineWithPoints
           /\ lret' = r.ret
    /\ lpc' = "returned"
    /\ UNCHANGED <<detect, mainVars>>

NextLines == CallRetrieveLines

SpecLines == InitLines /\ [][NextLines]_vars

---------------------------------------------------------------------------
(* Properties of retrieveLines (SpecLines) *)

\* x is the corner index held by a defined cell of board b
IsDefinedCorner(b, x) ==
    /\ x \in 0..(b.rows * b.cols - 1)
    /\ <<x \div b.cols, x % b.cols>> \notin b.undef

\* number of defined corners along row i of board b
DefinedInRow(b, i) == Cardinality({j \in 0..(b.cols - 1) : <<i, j>> \notin b.undef})

EveryRowHasNine(b) ==
    \A i \in 0..(b.rows - 1) : DefinedInRow(b, i) = MinLinePoints - 1

\* the emitted lines that come from the board at 0-based position n
LinesOfBoard(n) == SelectSeq(lineWithPoints, LAMBDA l : l.board = n)

\* C6: every line retrieveLines emits, whatever its family and board, carries
\* at least 10 points, and each point is the corner of a defined cell of the
\* board the line comes from (never the undefined sentinel)
C6_EmittedLinesHaveTenDefinedPoints ==
    lpc = "returned" =>
        \A k \in 1..Len(lineWithPoints) :
            LET l == lineWithPoints[k]
            IN  /\ l.board + 1 \in 1..Len(detect.boards)
                /\ Len(l.points) >= 10
                /\ \A p \in 1..Len(l.points) :
                      /\ l.points[p] # UndefinedIndexT
                      /\ IsDefinedCorner(detect.boards[l.board + 1], l.points[p])

\* C6 witness: a board with an undefined cell yields a line of exactly 10
\* points while another of its candidates is dropped
C6_Witness ==
    /\ lpc = "returned"
    /\ Len(detect.boards) = 1
    /\ detect.boards[1].undef # {}
    /\ \E k \in 1..Len(lineWithPoints) : Len(lineWithPoints[k].points) = 10
    /\ Len(lineWithPoints) < 2 * detect.boards[1].rows + 3 * detect.boards[1].cols

\* C8 as stated: a board whose rows all have exactly 9 defined corners
\* contributes no line at all
C8_Original ==
    lpc = "returned" =>
        \A n \in 1..Len(detect.boards) :
            EveryRowHasNine(detect.boards[n]) => LinesOfBoard(n - 1) = <<>>

\* C8 amended: a board whose rows all have exactly 9 defined corners
\* contributes no row line, and no line at all when it has fewer than 10 rows
C8_NineInEveryRow ==
    lpc = "returned" =>
        \A n \in 1..Len(detect.boards) :
            EveryRowHasNine(detect.boards[n]) =>
                /\ \A k \in 1..Len(LinesOfBoard(n - 1)) :
                      ~LinesOfBoard(n - 1)[k].horizontal
                /\ detect.boards[n].rows < MinLinePoints => LinesOfBoard(n - 1) = <<>>

\* C8 witness: a board with undefined cells whose rows all keep exactly 9
\* defined corners went through retrieveLines and produced nothing
C8_Witness ==
    /\ lpc = "returned"
    /\ Len(detect.boards) = 1
    /\ detect.boards[1].undef # {}
    /\ EveryRowHasNine(detect.boards[1])
    /\ lineWithPoints = <<>>
    /\ ~lret

---------------------------------------------------------------------------
(* Properties of aliceVision_main and the schedules (Spec) *)

\* an iteration of a pinhole intrinsic is under way or has just ended
InIteration == pc \in {"forward", "restore", "inverse", "next"}

\* the solver calls made so far in one mode ("lines": forward, "points": inversion)
CallsIn(mode) == SelectSeq(calls, LAMBDA c : c.mode = mode)

\* what retrieveLines extracts from each detector a view may come with
Extracted == [d \in Detectors |-> retrieveLines(d).lineWithPoints]

\* number of lines retrieveLines extracts over the first n views of vs
RECURSIVE TotalExtracted(_, _)
TotalExtracted(vs, n) ==
    IF n = 0 THEN 0 ELSE TotalExtracted(vs, n - 1) + Len(Extracted[vs[n]])

\* every line retrieveLines extracts over the first n views of vs, in view order
RECURSIVE AllExtracted(_, _)
AllExtracted(vs, n) ==
    IF n = 0 THEN <<>> ELSE AllExtracted(vs, n - 1) \o Extracted[vs[n]]

\* the lines of those of the first n views of vs that yield at least two each
RECURSIVE FromViewsWithTwo(_, _)
FromViewsWithTwo(vs, n) ==
    IF n = 0 THEN <<>>
    ELSE FromViewsWithTwo(vs, n - 1)
            \o (IF Len(Extracted[vs[n]]) >= 2 THEN Extracted[vs[n]] ELSE <<>>)

\* C1: when the processing of a pinhole intrinsic ends, on whatever path, the
\* camera's pixel scale is back to the value saved before fitting
C1_ScaleRestoredWhenIterationEnds ==
    pc = "next" => cameraPinhole.scale = scale

\* C2: an intrinsic for which fewer than two lines survive extraction is
\* skipped: no solver call is made for it, on lines or on point pairs
C2_FewLinesNoSolverCall ==
    (InIteration /\ TotalExtracted(views, Len(views)) < 2) => calls = <<>>

\* C3: once a solver call of a schedule reports failure no further call is
\* made for that intrinsic: the failed call is the last one, the iteration
\* is left at once, and after a forward failure the inversion (generatePoints
\* and the point-pair calls) never runs
C3_FailureAbortsSchedule ==
    /\ \A k \in 1..(Len(calls) - 1) : calls[k].ok
    /\ \A m \in {"lines", "points"} :
          \A k \in 1..Len(CallsIn(m)) : CallsIn(m)[k].stage = k
    /\ (calls # <<>> /\ ~calls[Len(calls)].ok) =>
          /\ pc = "next"
          /\ idx \in failed
          /\ calls[Len(calls)].mode = "lines" =>
                (CallsIn("points") = <<>> /\ points = <<>>)

\* C3 witness: a forward schedule failed at its second call on a non-empty
\* line set, and nothing ran after it
C3_Witness ==
    /\ Len(calls) = 2
    /\ calls[2].mode = "lines"
    /\ ~calls[2].ok
    /\ allLinesWithPoints # <<>>
    /\ pc = "next"

\* C4: a solver failure does not stop the run: after it the loop still goes
\* through every later intrinsic, the scene is saved and the exit status is 0
\* when the output can be written; the run ends otherwise only on the write
\* failure or on a non-pinhole intrinsic met later (C5)
C4_SolverFailureDoesNotStopRun ==
    /\ failed \subseteq 1..idx
    /\ (calls # <<>> /\ ~calls[Len(calls)].ok) => pc = "next"
    /\ (pc = "done" /\ failed # {}) =>
          \/ /\ idx = numIntrinsics + 1
             /\ saved
             /\ exitCode = EXIT_SUCCESS
          \/ /\ idx = numIntrinsics + 1
             /\ ~saved
             /\ exitCode = EXIT_FAILURE
             /\ fatal = "The output SfMData file cannot be written."
          \/ /\ intrinsicClass = "Equidistant"
             /\ idx \notin failed
             /\ exitCode = EXIT_FAILURE

\* C4 witness: the first of two intrinsics failed in the solver, the second
\* went through both schedules, the scene was saved and the run exited 0
C4_Witness ==
    /\ pc = "done"
    /\ numIntrinsics = 2
    /\ failed = {1}
    /\ saved
    /\ exitCode = EXIT_SUCCESS

\* C5 as stated: a non-pinhole intrinsic is skipped, so a run that met one
\* still goes through all intrinsics and reaches the save
C5_Original ==
    (fatal = "Only work for pinhole cameras" /\ pc = "done") =>
        /\ idx = numIntrinsics + 1
        /\ (saved \/ fatal = "The output SfMData file cannot be written.")

\* C5 amended: a non-pinhole intrinsic is logged and ends the process at once
\* with a non-zero status: the later intrinsics are not processed and the
\* output is not written
C5_NonPinholeAborts ==
    /\ intrinsicClass = "Equidistant" =>
          /\ pc = "done"
          /\ exitCode = EXIT_FAILURE
          /\ fatal = "Only work for pinhole cameras"
          /\ idx <= numIntrinsics
          /\ ~saved
          /\ cameraPinhole = NoCamera
    /\ fatal = "Only work for pinhole cameras" => intrinsicClass = "Equidistant"

\* C5 witness: the run ended on a non-pinhole intrinsic with another
\* intrinsic still to come
C5_Witness ==
    /\ intrinsicClass = "Equidistant"
    /\ pc = "done"
    /\ idx < numIntrinsics
    /\ exitCode = EXIT_FAILURE

\* C7: in the 3DEClassicLD schedule parameters 1 and 4 are locked in the
\* calls of stages 1 to 4 and unlocked in the call of stage 5, and as long as
\* the running schedule has not made its stage 5 call they hold their seeds
\* pi/2 and 0
C7_ClassicLDKeepsAngleLocked ==
    cameraPinhole.model = "Pinhole3DEClassicLD" =>
        /\ \A k \in 1..Len(calls) :
              /\ calls[k].stage \in 1..5
              /\ calls[k].stage <= 4 =>
                    (calls[k].locksDistortions[2] /\ calls[k].locksDistortions[5])
              /\ calls[k].stage = 5 =>
                    (~calls[k].locksDistortions[2] /\ ~calls[k].locksDistortions[5])
        /\ (calls # <<>> /\ calls[Len(calls)].stage <= 4) =>
              (cameraPinhole.params[2] = M_PI_2 /\ cameraPinhole.params[5] = 0)

\* C7 witness: stage 4 of the forward schedule succeeded on a camera that
\* held other values beforehand, the solver moved parameters 0, 2 and 3, and
\* stage 5 is next
C7_Witness ==
    /\ cameraPinhole.model = "Pinhole3DEClassicLD"
    /\ pc = "forward"
    /\ stage = 5
    /\ Len(calls) = 4
    /\ cameraPinhole.params[1] = FitValue(1)
    /\ cameraPinhole.params[3] = FitValue(1)
    /\ cameraPinhole.params[2] = M_PI_2
    /\ cameraPinhole.params[5] = 0

\* C9 as stated: when the lines extracted over all views of the intrinsic
\* number at least two, all of them are in the set handed to the solver
C9_Original ==
    (InIteration /\ TotalExtracted(views, Len(views)) >= 2) =>
        allLinesWithPoints = AllExtracted(views, Len(views))

\* C9 amended: the two-line requirement is evaluated per view: the set
\* handed to the solver holds the lines of exactly the views that yield at
\* least two lines each; a view yielding a single line contributes nothing
C9_PerViewThreshold ==
    InIteration =>
        /\ allLinesWithPoints = FromViewsWithTwo(views, Len(views))
        /\ \A k \in 1..Len(calls) :
              calls[k].mode = "lines" =>
                  calls[k].nItems = Len(FromViewsWithTwo(views, Len(views)))

\* C9 witness: one view yields a single line, the intrinsic's total is at
\* least two, and the solver was called on the gathered set
C9_Witness ==
    /\ InIteration
    /\ \E v \in 1..Len(views) : Len(Extracted[views[v]]) = 1
    /\ TotalExtracted(views, Len(views)) >= 2
    /\ allLinesWithPoints # <<>>
    /\ calls # <<>>

\* the RadialK1 schedule ran to its end in the given mode
K1Completed(mode) ==
    IF mode = "lines"
    THEN pc \in {"restore", "inverse"} \/ CallsIn("points") # <<>>
    ELSE pc = "next" /\ CallsIn("points") # <<>> /\ calls[Len(calls)].ok

\* C10 as stated: three calls, the first with k1 locked and the offset free,
\* the second with k1 released, the third with the offset free; scale
\* locked and lines not frozen in all three
C10_Original ==
    cameraPinhole.model = "PinholeRadialK1" =>
        \A m \in {"lines", "points"} :
            LET cs == CallsIn(m)
            IN  /\ Len(cs) <= 3
                /\ K1Completed(m) => Len(cs) = 3
                /\ \A k \in 1..Len(cs) :
                      /\ cs[k].lockScale /\ ~cs[k].lockLines
                      /\ cs[k].locksDistortions = <<k = 1>>
                      /\ k \in {1, 3} => ~cs[k].lockOffset

\* C10 amended: exactly three calls, in this order: (a) k1 locked and the
\* offset locked, only the line parameters free, (b) k1 released with the
\* offset still locked, (c) the offset freed as well; scale locked and lines
\* not frozen in all three
C10_K1Schedule ==
    cameraPinhole.model = "PinholeRadialK1" =>
        \A m \in {"lines", "points"} :
            LET cs == CallsIn(m)
            IN  /\ Len(cs) <= 3
                /\ K1Completed(m) => Len(cs) = 3
                /\ \A k \in 1..Len(cs) :
                      /\ cs[k].stage = k
                      /\ cs[k].lockScale /\ ~cs[k].lockLines
                      /\ cs[k].locksDistortions = <<k = 1>>
                      /\ cs[k].lockOffset = (k <= 2)

\* C10 witness: a RadialK1 camera went through all three calls on the lines
\* and all three on the point pairs
C10_Witness ==
    /\ cameraPinhole.model = "PinholeRadialK1"
    /\ pc = "next"
    /\ Len(CallsIn("lines")) = 3
    /\ Len(CallsIn("points")) = 3
    /\ calls[6].ok

\* the schedule of the intrinsic under processing ran to its end in the given mode
ScheduleCompleted(mode) == K1Completed(mode)

\* the 0-based indices a call leaves unlocked
Unlocked(c) == {i \in 0..(Len(c.locksDistortions) - 1) : ~c.locksDistortions[i + 1]}

\* C11: the 3DEAnamorphic4 schedule is exactly five solver calls, on the
\* lines and again on the point pairs, with (unlocked indices, lockOffset,
\* lockLines) in order ({}, locked, free), ({}, free, free), (0..3, free,
\* frozen), (0..9, free, frozen), (0..11, free, frozen); indices 12 and 13
\* are locked in every call and nothing released is locked again
C11_A4Schedule ==
    cameraPinhole.model = "Pinhole3DEAnamorphic4" =>
        \A m \in {"lines", "points"} :
            LET cs == CallsIn(m)
                expected == << {}, {}, 0..3, 0..9, 0..11 >>
            IN  /\ Len(cs) <= 5
                /\ ScheduleCompleted(m) => Len(cs) = 5
                /\ \A k \in 1..Len(cs) :
                      /\ cs[k].stage = k
                      /\ Len(cs[k].locksDistortions) = 14
                      /\ Unlocked(cs[k]) = expected[k]
                      /\ cs[k].lockOffset = (k = 1)
                      /\ cs[k].lockLines = (k >= 3)
                      /\ cs[k].locksDistortions[13] /\ cs[k].locksDistortions[14]
                      /\ k > 1 =>
                            /\ Unlocked(cs[k - 1]) \subseteq Unlocked(cs[k])
                            /\ ~cs[k - 1].lockOffset => ~cs[k].lockOffset

\* C11 witness: a 3DEAnamorphic4 camera went through all five calls on the
\* lines and all five on the point pairs
C11_Witness ==
    /\ cameraPinhole.model = "Pinhole3DEAnamorphic4"
    /\ pc = "next"
    /\ Len(CallsIn("lines")) = 5
    /\ Len(CallsIn("points")) = 5
    /\ calls[10].ok

\* C12 as stated: lockLines is true only in calls made on the point pairs
C12_Original ==
    \A k \in 1..Len(calls) : calls[k].lockLines => calls[k].mode = "points"

\* C12 amended: lockLines depends on the class and the stage, not on the
\* mode: it is true in stages 3 to 5 of 3DEAnamorphic4 and in stage 5 of
\* 3DEClassicLD, on the lines as on the point pairs, and false in every
\* other call
C12_LockLinesByStage ==
    \A k \in 1..Len(calls) :
        calls[k].lockLines <=>
            \/ cameraPinhole.model = "Pinhole3DEAnamorphic4" /\ calls[k].stage >= 3
            \/ cameraPinhole.model = "Pinhole3DEClassicLD" /\ calls[k].stage = 5

\* C12 witness: the forward fit of a 3DEClassicLD camera made its stage 5
\* call on the lines with the lines frozen, and the inversion did the same
C12_Witness ==
    /\ cameraPinhole.model = "Pinhole3DEClassicLD"
    /\ Len(calls) = 10
    /\ calls[5].mode = "lines" /\ calls[5].lockLines
    /\ calls[10].mode = "points" /\ calls[10].lockLines
    /\ \A k \in 1..4 : ~calls[k].lockLines

\* C13: the parameter vector the 3DEAnamorphic4 schedule hands to its first
\* solver call, on the lines or on the point pairs, is 0 at indices 0 to 10
\* and 1.0 at indices 11 to 13, whatever the camera held before
C13_SeedVectorAtFirstCall ==
    (cameraPinhole.model = "Pinhole3DEAnamorphic4"
        /\ pc \in {"forward", "inverse"} /\ stage = 1) =>
        Seeded(cameraPinhole).params =
            [k \in 1..14 |-> IF k - 1 \in 11..13 THEN One ELSE 0]

---------------------------------------------------------------------------
(* The two diagonal families that share the main diagonal (SpecLines) *)

\* the defined corners along the main diagonal of board b, from cell (0, 0)
MainDiagonal(b) == PushDefined([k \in 1..Min(b.rows, b.cols) |-> At(b, k - 1, k - 1)])

\* positions of the emitted lines of line k's board that carry line k's points
SamePoints(k) ==
    {m \in 1..Len(lineWithPoints) :
        /\ lineWithPoints[m].board = lineWithPoints[k].board
        /\ lineWithPoints[m].points = lineWithPoints[k].points}

\* C14: within one board the diagonal family started from the top edge and
\* the one started from the left edge both enumerate the main diagonal: when
\* it has at least 10 defined corners retrieveLines emits exactly two lines
\* with its point sequence, and every other emitted line of the board carries
\* a point sequence no other line of that board has
C14_MainDiagonalEmittedTwice ==
    lpc = "returned" =>
        /\ \A n \in 1..Len(detect.boards) :
              Len(MainDiagonal(detect.boards[n])) >= MinLinePoints =>
                  Len(SelectSeq(LinesOfBoard(n - 1),
                         LAMBDA l : l.points = MainDiagonal(detect.boards[n]))) = 2
        /\ \A k \in 1..Len(lineWithPoints) :
              Cardinality(SamePoints(k)) =
                  IF lineWithPoints[k].points =
                        MainDiagonal(detect.boards[lineWithPoints[k].board + 1])
                  THEN 2 ELSE 1

\* C14 witness: an 11 x 11 board with an undefined cell on its main diagonal
\* keeps 10 defined corners there; two emitted lines carry them and the
\* diagonals next to the main one are emitted once each
C14_Witness ==
    /\ lpc = "returned"
    /\ Len(detect.boards) = 1
    /\ detect.boards[1].undef # {}
    /\ Len(MainDiagonal(detect.boards[1])) = MinLinePoints
    /\ \E k, m \in 1..Len(lineWithPoints) :
          /\ k < m
          /\ lineWithPoints[k].points = MainDiagonal(detect.boards[1])
          /\ lineWithPoints[m] = lineWithPoints[k]
    /\ \E k \in 1..Len(lineWithPoints) :
          /\ ~lineWithPoints[k].horizontal
          /\ lineWithPoints[k].points # MainDiagonal(detect.boards[1])
          /\ lineWithPoints[k].points[2] - lineWithPoints[k].points[1]
                = detect.boards[1].cols + 1

====
